---- MODULE Spec2Model ----
(***************************************************************************)
(* State-machine model of the real-time extraction orchestrator of         *)
(* backend/api/tabular_review.py: the request handlers that expand a       *)
(* review into cell jobs, the processing workers, the thread-pool executor *)
(* that runs the Gemini calls, the result sender with its completion       *)
(* check, and the Supabase tables they read and write.                     *)
(*                                                                         *)
(* One server process is modelled.  Inside it asyncio runs one coroutine   *)
(* at a time, so the code between two awaits that really suspend is one    *)
(* atomic action.  The Supabase client is synchronous: a run of table      *)
(* calls without an await between them is atomic.  `await queue.put(x)`    *)
(* and `await queue.get()` suspend only when the queue is full / empty.    *)
(***************************************************************************)
EXTENDS Integers, Sequences, FiniteSets, TLC

(***************************************************************************)
(* Bounds of the model.                                                    *)
(***************************************************************************)
MaxFiles == 2     \* file ids 1..MaxFiles exist in the "files" table
MaxCols == 2      \* column ids a review may allocate over its life
MaxOps == 2       \* client requests (HTTP handlers) in one run
MaxTasks == 2     \* handlers / background tasks outstanding at once

(***************************************************************************)
(* Program constants, scaled down so that the cases in which they matter   *)
(* are reachable: the source has 5 processing workers, batch_size 10, a    *)
(* ThreadPoolExecutor of 20 threads and two queues of maxsize 1000.  The   *)
(* scaled values keep the order                                            *)
(*   NumWorkers < max_workers < NumWorkers * batch_size                    *)
(* that 5 < 20 < 50 has in the source, and the queues are small enough for *)
(* a put to find them full.                                                *)
(***************************************************************************)
NumWorkers == 2
batch_size == 2
max_workers == 3
processing_maxsize == 2
result_maxsize == 2

Reviews == {"r1"}
\* Reviews the store holds that no request of the run touches: "r0" is an
\* earlier review of the same user, "r9" a review of the other user.
OtherReviews == {"r0", "r9"}
AllReviews == Reviews \cup OtherReviews
Files == 1..MaxFiles
ColIds == 1..MaxCols
Workers == 1..NumWorkers

NoValue == "None"
Extracted == "value"

\* The server processes (each has its own manager, queues and workers; the
\* requests and the pipeline modelled are those of Home) and the websockets
\* of the one user.
Processes == {"A", "B"}
Home == "A"
Sockets == {"ws1", "ws2"}
NoSocket == "none"

\* The users a token can stand for; every review is created by Owner.
\* NoUser: validate_ws_token returned None.
Users == {"u1", "u2"}
Owner == "u1"
NoUser == "nobody"
\* tabular_reviews.user_id of each review
OwnerOf(r) == IF r = "r9" THEN "u2" ELSE Owner

\* The value under a Redis key: `hit` is whether the key is there
\* (redis_client.get returns None when it is not).
NoCache == [hit |-> FALSE, rows |-> {}]
Cached(rows) == [hit |-> TRUE, rows |-> rows]
\* The value under a key review_access:{user_id}:{review_id}
NoDecision == [hit |-> FALSE, value |-> FALSE]
Decision(has_access) == [hit |-> TRUE, value |-> has_access]

VARIABLES
    status,            \* tabular_reviews.status per review id ("none": no row)
    files,             \* tabular_review_files: file ids linked to each review
    columns,           \* tabular_review_columns: column ids of each review
    nextCol,           \* next fresh column id of each review (uuid4 is fresh)
    prompt,            \* tabular_review_columns.prompt per review and column id:
                       \* the number of the edit that wrote it (0: as created)
    results,           \* tabular_review_results: a set of rows
    processing_queue,  \* CellProcessor.processing_queue
    result_queue,      \* CellProcessor.result_queue
    batch,             \* per processing worker: the batch it is processing
    sender,            \* the result sender's position and local `result`
    tasks,             \* request handlers between awaits and background tasks
    user_connections,  \* per server process: manager.user_connections, the
                       \* websocket under the key "user:review"
    active_connections,\* per server process: manager.active_connections[user]
    socket,            \* per websocket: where its endpoint coroutine stands,
                       \* its process, review_id and user_id; `before` keeps
                       \* the rows the store held when it was registered
    inbox,             \* per websocket: the frames the client received
    review_results,    \* Redis key review_results:{review_id}: the cached rows
    review_access,     \* Redis key review_access:{user_id}:{review_id}: the
                       \* cached decision of verify_review_access
    review_user,       \* Redis key review_user:{review_id}: the cached user_id
                       \* of the review (NoUser: the key is not there)
    ops                \* requests made so far

vars == <<status, files, columns, nextCol, prompt, results, processing_queue,
          result_queue, batch, sender, tasks, user_connections,
          active_connections, socket, inbox, review_results, review_access,
          review_user, ops>>

storeVars == <<status, files, columns, nextCol, prompt, results>>
clientVars == <<user_connections, active_connections, socket, inbox,
               review_results, review_access>>

(***************************************************************************)
(* Helpers.                                                                *)
(***************************************************************************)
Min2(a, b) == IF a < b THEN a ELSE b

RECURSIVE SortedSeq(_)
\* The rows of a select, as a list; ids in ascending order.
SortedSeq(S) ==
    IF S = {} THEN <<>>
    ELSE LET m == CHOOSE x \in S : \A y \in S : x <= y
         IN <<m>> \o SortedSeq(S \ {m})

\* The dict a put loop places on the processing queue: the ids and the
\* prompt of the column row the expansion read.
Job(r, f, c) ==
    [review_id |-> r, file_id |-> f, column_id |-> c, prompt |-> prompt[r][c]]

RECURSIVE Expand(_, _, _)
\* for file_id in file_ids: for column in columns: put({...})
Expand(r, fileSeq, colSeq) ==
    IF fileSeq = <<>> THEN <<>>
    ELSE [i \in 1..Len(colSeq) |-> Job(r, Head(fileSeq), colSeq[i])]
         \o Expand(r, Tail(fileSeq), colSeq)

KeyOf(x) == <<x.review_id, x.file_id, x.column_id>>

ResultsOf(r) == {row \in results : row.review_id = r}

RowsOfKey(k) == {row \in results : KeyOf(row) = k}

\* A request handler between awaits or a background task; `id` is the
\* number of the request it stems from, two tasks are never the same.
Task(kind, r, fs, c, pc, pending) ==
    [id |-> ops, kind |-> kind, review |-> r, file_ids |-> fs, column_id |-> c,
     pc |-> pc, pending |-> pending]

NoResult == [review_id |-> "r1", file_id |-> 0, column_id |-> 0,
             value |-> NoValue, confidence |-> 0, source |-> ""]

\* The result sender between two results; `prev` remembers what the upsert
\* found under the key ("absent", or the value it overwrote), `to` the
\* websocket whose send_bytes it awaits.
IdleSender == [pc |-> "idle", result |-> NoResult, prev |-> "idle",
               stored |-> FALSE, to |-> NoSocket]

Init ==
    /\ status = [r \in Reviews |-> "none"]
    /\ files = [r \in Reviews |-> {}]
    /\ columns = [r \in Reviews |-> {}]
    /\ nextCol = [r \in Reviews |-> 1]
    /\ prompt = [r \in Reviews |-> [c \in ColIds |-> 0]]
    /\ results = {}
    /\ processing_queue = <<>>
    /\ result_queue = <<>>
    /\ batch = [w \in Workers |-> <<>>]
    /\ sender = IdleSender
    /\ tasks = {}
    /\ user_connections = [p \in Processes |-> [r \in AllReviews |-> NoSocket]]
    /\ active_connections = [p \in Processes |-> {}]
    /\ socket = [s \in Sockets |-> [pc |-> "new", process |-> Home, review |-> "r1",
                                    user |-> Owner, before |-> {}]]
    /\ inbox = [s \in Sockets |-> <<>>]
    /\ review_results = [r \in AllReviews |-> NoCache]
    /\ review_access = [u \in Users |-> [r \in AllReviews |-> NoDecision]]
    /\ review_user = [r \in Reviews |-> NoUser]
    /\ ops = 0


(***************************************************************************)
(* The Supabase tables.                                                    *)
(***************************************************************************)
\* The status of a review without a row: never inserted, or deleted.
NoRow == {"none", "deleted"}

ReviewExists(r) == status[r] \notin NoRow

\* supabase.table("tabular_reviews").update({"status": s}).eq("id", r):
\* an update that matches no row changes nothing.
WithStatus(r, s) ==
    IF ReviewExists(r) THEN [status EXCEPT ![r] = s] ELSE status

\* The row store_result_in_database builds from a result of the result queue.
ResultRecord(res) ==
    [review_id |-> res.review_id, file_id |-> res.file_id,
     column_id |-> res.column_id, extracted_value |-> res.value,
     confidence_score |-> res.confidence, source_reference |-> res.source]

\* The foreign keys of tabular_review_results (review_id, column_id): a row
\* that names no existing review or column is rejected by the store.
StoreAccepts(rec) ==
    /\ ReviewExists(rec.review_id)
    /\ rec.column_id \in columns[rec.review_id]

\* A plain insert, which keeps the row that is already there.
InsertRow(rows, rec) == rows \cup {rec}

\* .upsert(result_record, on_conflict="review_id,file_id,column_id")
Upsert(rows, rec) ==
    {row \in rows : KeyOf(row) # KeyOf(rec)} \cup {rec}

\* The upsert with no foreign key to refuse it.
StoreUnchecked(rows, rec) == Upsert(rows, rec)

\* A result kept only while a client's websocket is registered.
StoreIfListening(rows, rec) ==
    IF StoreAccepts(rec) /\ user_connections[Home][rec.review_id] # NoSocket
    THEN Upsert(rows, rec) ELSE rows

\* store_result_in_database: the upsert, any exception swallowed.
StoreResult(rows, rec) ==
    IF StoreAccepts(rec) THEN Upsert(rows, rec) ELSE rows

(***************************************************************************)
(* The connection manager of the Home process.                             *)
(***************************************************************************)
\* A frame as the client unpacks it: its 'type' and the results it carries
\* (the result of a cell_update, the rows of cached_results, else none).
Frame(type, data) == [type |-> type, data |-> data]

\* The keys each dict is sent with besides 'type', 'message', 'timestamp'
\* and 'error'.
FrameKeys(type) ==
    CASE type = "cell_update" -> {"data"}
      [] type = "structure" -> {"data"}
      [] type = "cached_results" -> {"data"}
      [] type \in {"processing_started", "analysis_queued"} -> {"total_cells"}
      [] type = "files_added" -> {"file_count"}
      [] type = "files_analysis_started" -> {"file_ids"}
      [] type = "files_analysis_queued" -> {"file_ids", "total_cells"}
      [] type \in {"column_added", "column_analysis_started", "column_updated",
                   "column_deleted"} -> {"column_id"}
      [] type = "column_analysis_queued" -> {"column_id", "total_cells"}
      [] OTHER -> {}

\* The frame names its review: under a key of its own, or in the result it
\* carries as 'data'.
CarriesReviewId(frame) ==
    \/ "review_id" \in FrameKeys(frame.type)
    \/ /\ frame.type = "cell_update"
       /\ \A res \in frame.data : "review_id" \in DOMAIN res

\* The frames of the connection's own start
Lifecycle == {"structure", "cached_results"}

\* The websocket is open on the client's side: send_bytes succeeds.
Open(s) == socket[s].pc \in {"registered", "structured", "live"}

RECURSIVE Deliver(_, _, _, _)
\* manager.send_to_review for each of `frames` in turn: nothing when the key
\* is not registered; the frame is sent to the one websocket under the key;
\* when the send raises (the client is gone) the key is deleted.
\* <<user_connections of Home, inbox>> afterwards.
Deliver(r, frames, registered, received) ==
    IF frames = <<>> THEN <<registered, received>>
    ELSE LET s == registered[r]
         IN IF s = NoSocket
            THEN Deliver(r, Tail(frames), registered, received)
            ELSE IF Open(s)
            THEN Deliver(r, Tail(frames), registered,
                         [received EXCEPT ![s] = Append(@, Head(frames))])
            ELSE Deliver(r, Tail(frames),
                         [registered EXCEPT ![r] = NoSocket], received)

\* The frames sent to every open websocket of the review's user, whatever
\* review it is registered for.
SendToUser(r, frames) ==
    /\ inbox' = [s \in Sockets |->
                   IF /\ s \in active_connections[Home]
                      /\ socket[s].user = OwnerOf(r)
                      /\ Open(s)
                   THEN inbox[s] \o frames ELSE inbox[s]]
    /\ UNCHANGED <<user_connections, active_connections, socket,
                   review_results, review_access>>

\* await manager.send_to_review(user_id, r, frame) for each frame
SendToReview(r, frames) ==
    LET out == Deliver(r, frames, user_connections[Home], inbox)
    IN /\ user_connections' = [user_connections EXCEPT ![Home] = out[1]]
       /\ inbox' = out[2]
       /\ UNCHANGED <<active_connections, socket, review_results, review_access>>

(***************************************************************************)
(* Request handlers.  A handler that schedules a background task leaves a  *)
(* task record; FastAPI runs the task after the response is sent.          *)
(***************************************************************************)
CanRequest == ops < MaxOps /\ Cardinality(tasks) < MaxTasks

AddTask(t) == tasks' = tasks \cup {t}

\* create_review: validate, then background_tasks.add_task(create_review_async)
CreateReview(r, fs, nc) ==
    /\ CanRequest
    /\ status[r] = "none"
    /\ \A t \in tasks : ~(t.kind = "create" /\ t.review = r)
    /\ fs # {}
    /\ nc >= 1
    /\ AddTask(Task("create", r, fs, nc, "scheduled", <<>>))
    /\ ops' = ops + 1
    /\ UNCHANGED <<storeVars, processing_queue, result_queue, batch, sender, review_user,
                   clientVars>>

\* add_files_to_review: the store calls up to the status update run without
\* an await between them.
AddFiles(r, req) ==
    /\ CanRequest
    /\ ReviewExists(r)
    /\ req # {}
    /\ LET new_file_ids == req \ files[r]
       IN /\ new_file_ids # {}
          /\ files' = [files EXCEPT ![r] = @ \cup new_file_ids]
          /\ status' = WithStatus(r, "processing")
          /\ AddTask(Task("files", r, new_file_ids, 0, "scheduled", <<>>))
    /\ SendToReview(r, <<Frame("files_added", {})>>)
    /\ ops' = ops + 1
    /\ UNCHANGED <<columns, nextCol, prompt, results, processing_queue, result_queue,
                   batch, sender, review_user>>

\* add_column_to_review
AddColumn(r) ==
    /\ CanRequest
    /\ ReviewExists(r)
    /\ nextCol[r] <= MaxCols
    /\ LET column_id == nextCol[r]
       IN /\ columns' = [columns EXCEPT ![r] = @ \cup {column_id}]
          /\ nextCol' = [nextCol EXCEPT ![r] = @ + 1]
          /\ status' = WithStatus(r, "processing")
          /\ AddTask(Task("column", r, {}, column_id, "scheduled", <<>>))
    /\ SendToReview(r, <<Frame("column_added", {})>>)
    /\ ops' = ops + 1
    /\ UNCHANGED <<files, prompt, results, processing_queue, result_queue,
                   batch, sender, review_user>>

\* update_column with a prompt, first part: the column row is updated, then
\* `await redis_client.delete(...)` suspends the handler.
UpdateColumn(r, c) ==
    /\ CanRequest
    /\ ReviewExists(r)
    /\ c \in columns[r]
    /\ prompt' = [prompt EXCEPT ![r][c] = @ + 1]
    /\ AddTask(Task("edit", r, {}, c, "updated", <<>>))
    /\ ops' = ops + 1
    /\ UNCHANGED <<status, files, columns, nextCol, results, processing_queue,
                   result_queue, batch, sender, review_user, clientVars>>

\* The delete left out: the rows of the column stay.
KeepRows(rows, r, c) == rows

\* Rows left by .delete().eq("review_id", r).eq("column_id", c), and by the
\* cascade of a deleted column
WithoutColumn(rows, r, c) ==
    {row \in rows : ~(row.review_id = r /\ row.column_id = c)}

\* update_column, second part: clear the column's results, set the status,
\* send column_updated, schedule analyze_new_column_immediate.
UpdateColumnClear(t) ==
    /\ t \in tasks
    /\ t.kind = "edit"
    /\ results' = WithoutColumn(results, t.review, t.column_id)
    /\ status' = WithStatus(t.review, "processing")
    /\ tasks' = (tasks \ {t})
                  \cup {[Task("column", t.review, {}, t.column_id, "scheduled", <<>>)
                             EXCEPT !.id = t.id]}
    /\ SendToReview(t.review, <<Frame("column_updated", {})>>)
    /\ UNCHANGED <<files, columns, nextCol, prompt, processing_queue, result_queue,
                   batch, sender, review_user, ops>>

\* delete_column: "Delete column (cascade will delete results)"
DeleteColumn(r, c) ==
    /\ ops < MaxOps
    /\ ReviewExists(r)
    /\ c \in columns[r]
    /\ columns' = [columns EXCEPT ![r] = @ \ {c}]
    /\ results' = WithoutColumn(results, r, c)
    /\ SendToReview(r, <<Frame("column_deleted", {})>>)
    /\ ops' = ops + 1
    /\ UNCHANGED <<status, files, nextCol, prompt, processing_queue, result_queue,
                   batch, sender, review_user, tasks>>

\* start_analysis.  With force_reprocess the results are deleted and the
\* handler suspends in `await redis_client.delete(...)` before it sets the
\* status; without it the status is set at once.
StartAnalysis(r, force_reprocess) ==
    /\ CanRequest
    /\ ReviewExists(r)
    /\ IF force_reprocess
       THEN /\ results' = results \ ResultsOf(r)
            /\ AddTask(Task("analyze", r, {}, 0, "forced", <<>>))
            /\ UNCHANGED status
       ELSE /\ status' = WithStatus(r, "processing")
            /\ AddTask(Task("analyze", r, {}, 0, "scheduled", <<>>))
            /\ UNCHANGED results
    /\ ops' = ops + 1
    /\ UNCHANGED <<files, columns, nextCol, prompt, processing_queue, result_queue,
                   batch, sender, review_user, clientVars>>

\* start_analysis after the cache delete: status update, add_task.
StartAnalysisResume(t) ==
    /\ t \in tasks
    /\ t.kind = "analyze"
    /\ t.pc = "forced"
    /\ status' = WithStatus(t.review, "processing")
    /\ tasks' = (tasks \ {t}) \cup {[t EXCEPT !.pc = "scheduled"]}
    /\ review_results' = [review_results EXCEPT ![t.review] = NoCache]
    /\ UNCHANGED <<files, columns, nextCol, prompt, results, processing_queue,
                   result_queue, batch, sender, review_user, user_connections,
                   active_connections, socket, inbox, review_access, ops>>


\* for key in cache_keys: await redis_client.delete(key), the keys being
\* those of the review's structure, results, user and the user's access
WithoutReviewKeys(r, user_id) ==
    /\ review_results' = [review_results EXCEPT ![r] = NoCache]
    /\ review_user' = [review_user EXCEPT ![r] = NoUser]
    /\ review_access' = [review_access EXCEPT ![user_id][r] = NoDecision]

\* The rows left by `ON DELETE CASCADE` of the review's row
WithoutReview(rows, r) == {row \in rows : row.review_id # r}

\* delete_tabular_review up to its first await: the review is the user's,
\* its row is deleted and with it its columns, file links and results.
DeleteReview(r) ==
    /\ CanRequest
    /\ ReviewExists(r)
    /\ status' = [status EXCEPT ![r] = "deleted"]
    /\ files' = [files EXCEPT ![r] = {}]
    /\ columns' = [columns EXCEPT ![r] = {}]
    /\ results' = WithoutReview(results, r)
    /\ AddTask(Task("delete", r, {}, 0, "deleted", <<>>))
    /\ ops' = ops + 1
    /\ UNCHANGED <<nextCol, prompt, processing_queue, result_queue, batch,
                   sender, review_user, clientVars>>

\* delete_tabular_review: its cache deletes have reached Redis, it returns.
DeleteReviewClear(t) ==
    /\ t \in tasks
    /\ t.kind = "delete"
    /\ t.pc = "deleted"
    /\ WithoutReviewKeys(t.review, Owner)
    /\ tasks' = tasks \ {t}
    /\ UNCHANGED <<storeVars, processing_queue, result_queue, batch, sender,
                   user_connections, active_connections, socket, inbox, ops>>

(***************************************************************************)
(* Background tasks: the expansion of a request into cell jobs.            *)
(***************************************************************************)
\* A put that never waits: a queue without maxsize.
FitsAll(pending, q) == Len(pending)

\* How many of `pending` a put loop places before a put finds the queue full.
Fits(pending, q) == Min2(Len(pending), processing_maxsize - Len(q))

\* The frame a background task sends when it starts
StartedFrame(kind) ==
    Frame(CASE kind = "files" -> "files_analysis_started"
            [] kind = "column" -> "column_analysis_started"
            [] OTHER -> "analysis_started", {})

\* The frame a background task sends once all its jobs are put
QueuedFrame(kind) ==
    Frame(CASE kind = "create" -> "processing_started"
            [] kind = "files" -> "files_analysis_queued"
            [] kind = "column" -> "column_analysis_queued"
            [] OTHER -> "analysis_queued", {})

\* The put loop: it runs on without suspending until the queue is full.
\* `started` are the frames sent before it, `queued` those sent after the
\* last put.
PutLoop(t, pending, started, queued) ==
    LET n == Fits(pending, processing_queue)
        rest == SubSeq(pending, n + 1, Len(pending))
    IN /\ processing_queue' = processing_queue \o SubSeq(pending, 1, n)
       /\ tasks' = IF rest = <<>> THEN tasks \ {t}
                   ELSE (tasks \ {t})
                          \cup {[t EXCEPT !.pc = "putting", !.pending = rest]}
       /\ SendToReview(t.review,
                       started \o (IF rest = <<>> THEN queued ELSE <<>>))

\* create_review_async: jobs for file_ids x the saved columns
CreateJobs(r, file_ids, saved_columns) ==
    Expand(r, SortedSeq(file_ids), SortedSeq(saved_columns))

\* create_review_async up to its first suspension (the cache deletes): the
\* review, its columns and its file links are inserted, the saved columns
\* are read back.
CreateReviewAsync(t) ==
    /\ t \in tasks
    /\ t.kind = "create"
    /\ t.pc = "scheduled"
    /\ LET r == t.review
           saved_columns == 1..t.column_id
       IN /\ status' = [status EXCEPT ![r] = "processing"]
          /\ columns' = [columns EXCEPT ![r] = saved_columns]
          /\ nextCol' = [nextCol EXCEPT ![r] = t.column_id + 1]
          /\ files' = [files EXCEPT ![r] = t.file_ids]
          /\ tasks' = (tasks \ {t})
                        \cup {[t EXCEPT !.pc = "clearing",
                                        !.pending = CreateJobs(r, t.file_ids, saved_columns)]}
    /\ UNCHANGED <<prompt, results, processing_queue, result_queue, batch,
                   sender, review_user, clientVars, ops>>

\* create_review_async: its cache deletes have reached Redis, the put loop
\* is next.
CreateReviewClear(t) ==
    /\ t \in tasks
    /\ t.kind = "create"
    /\ t.pc = "clearing"
    /\ WithoutReviewKeys(t.review, Owner)
    /\ tasks' = (tasks \ {t}) \cup {[t EXCEPT !.pc = "putting"]}
    /\ UNCHANGED <<storeVars, processing_queue, result_queue, batch, sender,
                   user_connections, active_connections, socket, inbox, ops>>

\* analyze_new_files_immediate: new files x the columns read from the store
NewFilesJobs(r, file_ids) ==
    Expand(r, SortedSeq(file_ids), SortedSeq(columns[r]))

AnalyzeNewFiles(t) ==
    /\ t \in tasks
    /\ t.kind = "files"
    /\ t.pc = "scheduled"
    /\ PutLoop(t, NewFilesJobs(t.review, t.file_ids),
               <<StartedFrame(t.kind)>>, <<QueuedFrame(t.kind)>>)
    /\ UNCHANGED <<storeVars, result_queue, batch, sender, review_user, ops>>

\* The expansion over every column of the review instead of the new one.
AllColumnsJobs(r, column_id) ==
    Expand(r, SortedSeq(files[r]), SortedSeq(columns[r]))

\* analyze_new_column_immediate: nothing when the column row is gone, else
\* the files read from the store x the column
NewColumnJobs(r, column_id) ==
    IF column_id \in columns[r]
    THEN Expand(r, SortedSeq(files[r]), <<column_id>>)
    ELSE <<>>

AnalyzeNewColumn(t) ==
    /\ t \in tasks
    /\ t.kind = "column"
    /\ t.pc = "scheduled"
    /\ PutLoop(t, NewColumnJobs(t.review, t.column_id),
               <<StartedFrame(t.kind)>>,
               IF t.column_id \in columns[t.review]
               THEN <<QueuedFrame(t.kind)>> ELSE <<>>)
    /\ UNCHANGED <<storeVars, result_queue, batch, sender, review_user, ops>>

\* A re-analysis that skips the cells that hold a Result.
MissingJobs(r) ==
    IF ReviewExists(r)
    THEN SelectSeq(Expand(r, SortedSeq(files[r]), SortedSeq(columns[r])),
                   LAMBDA job : RowsOfKey(KeyOf(job)) = {})
    ELSE <<>>

\* process_review_analysis_realtime: return when the review row is gone,
\* else all files x all columns read from the store
ReviewJobs(r) ==
    IF ReviewExists(r)
    THEN Expand(r, SortedSeq(files[r]), SortedSeq(columns[r]))
    ELSE <<>>

ProcessReviewAnalysis(t) ==
    /\ t \in tasks
    /\ t.kind = "analyze"
    /\ t.pc = "scheduled"
    /\ PutLoop(t, ReviewJobs(t.review),
               <<StartedFrame(t.kind)>>,
               IF ReviewExists(t.review) THEN <<QueuedFrame(t.kind)>> ELSE <<>>)
    /\ UNCHANGED <<storeVars, result_queue, batch, sender, review_user, ops>>

\* A put loop resumes: after the cache deletes of create_review_async, or
\* when a put that found the queue full is woken.
ResumePut(t) ==
    /\ t \in tasks
    /\ t.pc = "putting"
    /\ Fits(t.pending, processing_queue) > 0
    /\ PutLoop(t, t.pending, <<>>, <<QueuedFrame(t.kind)>>)
    /\ UNCHANGED <<storeVars, result_queue, batch, sender, review_user, ops>>

(***************************************************************************)
(* Processing workers and the executor.                                    *)
(***************************************************************************)
Cell(job, st) == [job |-> job, st |-> st]

Settled(cell) == cell.st \in {"ok", "failed", "none"}

\* processing_worker: one get(), then up to batch_size - 1 get_nowait()
BatchLen(q) == Min2(batch_size, Len(q))

\* The workers are interchangeable: the idle worker of least index stands for
\* whichever getter asyncio wakes.
TakeBatch(w) ==
    /\ batch[w] = <<>>
    /\ \A v \in Workers : v < w => batch[v] # <<>>
    /\ processing_queue # <<>>
    /\ LET n == BatchLen(processing_queue)
       IN /\ batch' = [batch EXCEPT ![w] =
                         [i \in 1..n |-> Cell(processing_queue[i], "task")]]
          /\ processing_queue' = SubSeq(processing_queue, n + 1, Len(processing_queue))
    /\ UNCHANGED <<storeVars, result_queue, sender, review_user, tasks, clientVars, ops>>

\* Gemini calls running in executor threads, over all workers and reviews
InFlight ==
    Cardinality({wi \in Workers \X (1..batch_size) :
                    /\ wi[2] <= Len(batch[wi[1]])
                    /\ batch[wi[1]][wi[2]].st = "engine"})

\* No bound on the threads: every submitted call starts at once.
ThreadAlwaysFree == TRUE

\* ThreadPoolExecutor(max_workers=...): a submitted call waits for a thread
ThreadFree == InFlight < max_workers

\* _process_single_cell: no document content (not cached, not fetched), or
\* an exception on the way: the cell returns None.
CellReturnsNone(w, i) ==
    /\ i \in 1..Len(batch[w])
    /\ batch[w][i].st = "task"
    /\ batch' = [batch EXCEPT ![w][i].st = "none"]
    /\ UNCHANGED <<storeVars, processing_queue, result_queue, sender, review_user, tasks,
                   clientVars, ops>>

\* _process_single_cell: content found, run_in_executor(_gemini_extract)
\* gets a thread
EngineStart(w, i) ==
    /\ i \in 1..Len(batch[w])
    /\ batch[w][i].st = "task"
    /\ ThreadFree
    /\ batch' = [batch EXCEPT ![w][i].st = "engine"]
    /\ UNCHANGED <<storeVars, processing_queue, result_queue, sender, review_user, tasks,
                   clientVars, ops>>

\* _gemini_extract returns: the parsed extraction ("ok"), or the
\* "Analysis failed" record when the call raised or the text was no JSON
\* ("failed"); "none": the parsed JSON was no object, result.get raises
\* and _process_single_cell returns None.
EngineReturn(w, i, outcome) ==
    /\ i \in 1..Len(batch[w])
    /\ batch[w][i].st = "engine"
    /\ outcome \in {"ok", "failed", "none"}
    /\ batch' = [batch EXCEPT ![w][i].st = outcome]
    /\ UNCHANGED <<storeVars, processing_queue, result_queue, sender, review_user, tasks,
                   clientVars, ops>>

\* A failed extraction that looks like an answer.
CellResultUnmarked(cell) ==
    [review_id |-> cell.job.review_id, file_id |-> cell.job.file_id,
     column_id |-> cell.job.column_id,
     value |-> IF cell.st = "ok" THEN Extracted ELSE NoValue,
     confidence |-> 90, source |-> "Page 1"]

\* The dict _process_single_cell returns for a cell the engine answered;
\* the confidence is in hundredths (0.0 with the "Analysis failed" record).
CellResult(cell) ==
    [review_id |-> cell.job.review_id, file_id |-> cell.job.file_id,
     column_id |-> cell.job.column_id,
     value |-> IF cell.st = "ok" THEN Extracted ELSE NoValue,
     confidence |-> IF cell.st = "ok" THEN 90 ELSE 0,
     source |-> IF cell.st = "ok" THEN "Page 1" ELSE "Analysis failed"]

\* A failed extraction treated like a cell that returned nothing.
SkippedOrFailed(cell) == cell.st \in {"none", "failed"}

\* `if result:` of processing_worker: a cell that returned None is skipped
Skipped(cell) == cell.st = "none"

RECURSIVE SendResults(_, _)
\* for result in results: if result: await result_queue.put(result)
\* <<cells left, result queue>> when the loop ends or a put finds the queue full
SendResults(cells, q) ==
    IF cells = <<>> THEN <<cells, q>>
    ELSE IF Skipped(Head(cells)) THEN SendResults(Tail(cells), q)
    ELSE IF Len(q) < result_maxsize
         THEN SendResults(Tail(cells), Append(q, CellResult(Head(cells))))
         ELSE <<cells, q>>

\* processing_worker after gather() returned: the results are sent
WorkerSend(w) ==
    /\ batch[w] # <<>>
    /\ \A i \in 1..Len(batch[w]) : Settled(batch[w][i])
    /\ LET out == SendResults(batch[w], result_queue)
       IN /\ out[1] # batch[w]
          /\ batch' = [batch EXCEPT ![w] = out[1]]
          /\ result_queue' = out[2]
    /\ UNCHANGED <<storeVars, processing_queue, sender, review_user, tasks, clientVars, ops>>


\* process_batch and the send loop seen from outside the batch: between
\* TakeBatch and the return of gather() the cells of a batch touch no shared
\* state but the executor's threads, so their settling folds into one step,
\* each cell with an outcome of its own; the results are then sent as far
\* as the result queue has room.
ProcessBatch(w, outcomes) ==
    /\ batch[w] # <<>>
    /\ \A i \in 1..Len(batch[w]) : batch[w][i].st = "task"
    /\ \E f \in [1..Len(batch[w]) -> outcomes] :
         LET settled == [i \in 1..Len(batch[w]) |-> Cell(batch[w][i].job, f[i])]
             out == SendResults(settled, result_queue)
         IN /\ batch' = [batch EXCEPT ![w] = out[1]]
            /\ result_queue' = out[2]
    /\ UNCHANGED <<storeVars, processing_queue, sender, review_user, tasks, clientVars, ops>>

(***************************************************************************)
(* The result sender.                                                      *)
(***************************************************************************)
\* What the store holds under the key of `rec` before an upsert
Found(rec) ==
    IF RowsOfKey(KeyOf(rec)) = {} THEN "absent"
    ELSE (CHOOSE row \in RowsOfKey(KeyOf(rec)) : TRUE).extracted_value

\* result_sender_worker: result_queue.get(), store_result_in_database.
\* `store_up` is whether the persistence call goes through; when it raises,
\* store_result_in_database prints the error and returns.
StoreNext(store_up) ==
    /\ sender.pc = "idle"
    /\ result_queue # <<>>
    /\ LET result == Head(result_queue)
           rec == ResultRecord(result)
       IN /\ results' = IF store_up THEN StoreResult(results, rec) ELSE results
          /\ sender' = [pc |-> "stored", result |-> result, prev |-> Found(rec),
                        stored |-> store_up /\ StoreAccepts(rec), to |-> NoSocket]
    /\ result_queue' = Tail(result_queue)
    /\ UNCHANGED <<status, files, columns, nextCol, prompt, processing_queue, batch,
                   tasks, review_user, clientVars, ops>>

total_columns(r) == Cardinality(columns[r])
total_files(r) == Cardinality(files[r])
total_results(r) == Cardinality(ResultsOf(r))
total_expected(r) == total_files(r) * total_columns(r)

\* Completion declared as soon as any result is stored.
AnyResultStored(r) == total_results(r) >= 1

\* if total_expected > 0 and total_results == total_expected
CompletionReached(r) ==
    total_expected(r) > 0 /\ total_results(r) = total_expected(r)

\* review_completed announced ahead of the cell's own update.
CompletedFirst(result, completed) ==
    (IF completed THEN <<Frame("review_completed", {})>> ELSE <<>>)
      \o <<Frame("cell_update", {result})>>

\* The frames result_sender_worker sends for one result: the cell_update,
\* then review_completed when the completion check found the review full.
SenderFrames(result, completed) ==
    <<Frame("cell_update", {result})>>
      \o (IF completed THEN <<Frame("review_completed", {})>> ELSE <<>>)

\* get_review_user: the user_id under the Redis key when it is there, else
\* the user_id of the review's row, None when there is no row
GetReviewUser(r) ==
    IF review_user[r] # NoUser THEN review_user[r]
    ELSE IF ReviewExists(r) THEN OwnerOf(r) ELSE NoUser

\* get_review_user: a user_id read from the store is left under the key
CacheReviewUser(r) == [review_user EXCEPT ![r] = GetReviewUser(r)]

\* result_sender_worker after the store: the review's user is looked up,
\* the cell_update is sent, then the completion check reads the three
\* counts and, on equality, writes 'completed' and sends review_completed.
CompletionCheck ==
    /\ sender.pc = "stored"
    /\ LET r == sender.result.review_id
       IN /\ status' = IF CompletionReached(r)
                       THEN WithStatus(r, "completed") ELSE status
          /\ SendToReview(r, IF GetReviewUser(r) # NoUser
                             THEN SenderFrames(sender.result, CompletionReached(r))
                             ELSE <<>>)
          /\ review_user' = CacheReviewUser(r)
    /\ sender' = IdleSender
    /\ UNCHANGED <<files, columns, nextCol, prompt, results, processing_queue,
                   result_queue, batch, tasks, ops>>

\* manager.send_to_review of the cell_update when send_bytes suspends: the
\* websocket was read from under the key, the coroutine waits for the
\* transport to take the frame.
SendBegin ==
    /\ sender.pc = "stored"
    /\ GetReviewUser(sender.result.review_id) # NoUser
    /\ user_connections[Home][sender.result.review_id] # NoSocket
    /\ sender' = [sender EXCEPT !.pc = "sending",
                                !.to = user_connections[Home][sender.result.review_id]]
    /\ review_user' = CacheReviewUser(sender.result.review_id)
    /\ UNCHANGED <<storeVars, processing_queue, result_queue, batch, tasks,
                   clientVars, ops>>

\* The client took the frame and send_bytes returns: the completion check
\* follows, and review_completed goes to the websocket under the key now.
SendEnd ==
    /\ sender.pc = "sending"
    /\ Open(sender.to)
    /\ LET r == sender.result.review_id
           frames == SenderFrames(sender.result, CompletionReached(r))
           out == Deliver(r, Tail(frames), user_connections[Home],
                          [inbox EXCEPT ![sender.to] = Append(@, Head(frames))])
       IN /\ status' = IF CompletionReached(r)
                       THEN WithStatus(r, "completed") ELSE status
          /\ user_connections' = [user_connections EXCEPT ![Home] = out[1]]
          /\ inbox' = out[2]
    /\ sender' = IdleSender
    /\ UNCHANGED <<files, columns, nextCol, prompt, results, processing_queue,
                   result_queue, batch, tasks, active_connections, socket,
                   review_results, review_access, review_user, ops>>

\* send_bytes raises, the client is gone: `del self.user_connections[key]`.
\* With the key still there it is deleted and the completion check follows
\* (its review_completed finds no key).  With the key deleted meanwhile by
\* manager.disconnect the del raises KeyError out of send_to_review, and
\* the `except Exception` of result_sender_worker ends the iteration.
SendRaises ==
    /\ sender.pc = "sending"
    /\ ~Open(sender.to)
    /\ LET r == sender.result.review_id
       IN IF user_connections[Home][r] # NoSocket
          THEN /\ user_connections' = [user_connections EXCEPT ![Home][r] = NoSocket]
               /\ status' = IF CompletionReached(r)
                            THEN WithStatus(r, "completed") ELSE status
          ELSE UNCHANGED <<user_connections, status>>
    /\ sender' = IdleSender
    /\ UNCHANGED <<files, columns, nextCol, prompt, results, processing_queue,
                   result_queue, batch, tasks, active_connections, socket,
                   inbox, review_results, review_access, review_user, ops>>

\* setex(cache_key, 600, ...): the key expires
UserExpires(r) ==
    /\ review_user[r] # NoUser
    /\ review_user' = [review_user EXCEPT ![r] = NoUser]
    /\ UNCHANGED <<storeVars, processing_queue, result_queue, batch, sender,
                   tasks, clientVars, ops>>

(***************************************************************************)
(* A websocket client of a review.                                         *)
(***************************************************************************)
\* Access granted to whoever presents a token.
HasAccessUnchecked(r, user_id) == r \in Reviews => ReviewExists(r)

\* verify_review_access, the store read: a row of tabular_reviews with this
\* id and user_id
HasAccess(r, user_id) ==
    /\ user_id = OwnerOf(r)
    /\ r \in Reviews => ReviewExists(r)

\* verify_review_access: the decision under the Redis key when it is there,
\* else the one read from the store
VerifyReviewAccess(r, user_id) ==
    IF review_access[user_id][r].hit THEN review_access[user_id][r].value
    ELSE HasAccess(r, user_id)

\* The endpoint of websocket s, served by process p, after the checks: with
\* access the websocket is accepted and manager.connect registers it under
\* the key, replacing the websocket that was there; without, it is closed
\* (4001, 4004) and never accepted.
Admit(s, p, r, user_id, has_access) ==
    IF has_access
    THEN /\ socket' = [socket EXCEPT ![s] = [pc |-> "registered", process |-> p,
                                             review |-> r, user |-> user_id,
                                             before |-> ResultsOf(r)]]
         /\ user_connections' = [user_connections EXCEPT ![p][r] = s]
         /\ active_connections' = [active_connections EXCEPT ![p] = @ \cup {s}]
    ELSE /\ socket' = [socket EXCEPT ![s] = [pc |-> "refused", process |-> p,
                                             review |-> r, user |-> user_id,
                                             before |-> {}]]
         /\ UNCHANGED <<user_connections, active_connections>>

\* websocket_endpoint of process p up to manager.connect, none of its awaits
\* giving way to another coroutine.  The token is validated and the access
\* verified; a decision read from the store is left under the Redis key.
Handshake(s, p, r, user_id) ==
    /\ socket[s].pc = "new"
    /\ IF user_id = NoUser
       THEN /\ Admit(s, p, r, user_id, FALSE)
            /\ UNCHANGED review_access
       ELSE /\ Admit(s, p, r, user_id, VerifyReviewAccess(r, user_id))
            /\ review_access' =
                 [review_access EXCEPT
                    ![user_id][r] = Decision(VerifyReviewAccess(r, user_id))]
    /\ UNCHANGED <<storeVars, processing_queue, result_queue, batch, sender,
                   review_user, tasks, inbox, review_results, ops>>

\* verify_review_access up to its setex: the key is not there, the store is
\* read, and the coroutine waits for Redis to take the decision.
VerifyAccess(s, p, r, user_id) ==
    /\ socket[s].pc = "new"
    /\ user_id # NoUser
    /\ ~review_access[user_id][r].hit
    /\ socket' = [socket EXCEPT
                    ![s] = [pc |-> IF HasAccess(r, user_id) THEN "granted"
                                   ELSE "denied",
                            process |-> p, review |-> r, user |-> user_id,
                            before |-> {}]]
    /\ UNCHANGED <<storeVars, processing_queue, result_queue, batch, sender,
                   review_user, tasks, user_connections, active_connections,
                   inbox, review_results, review_access, ops>>

\* verify_review_access after its setex: the decision read from the store
\* is under the key, and the endpoint goes on with it.
CacheAccess(s) ==
    /\ socket[s].pc \in {"granted", "denied"}
    /\ review_access' =
         [review_access EXCEPT
            ![socket[s].user][socket[s].review] = Decision(socket[s].pc = "granted")]
    /\ Admit(s, socket[s].process, socket[s].review, socket[s].user,
             socket[s].pc = "granted")
    /\ UNCHANGED <<storeVars, processing_queue, result_queue, batch, sender,
                   review_user, tasks, inbox, review_results, ops>>

\* setex(cache_key, 300, ...): the key expires
AccessExpires(user_id, r) ==
    /\ review_access[user_id][r].hit
    /\ review_access' = [review_access EXCEPT ![user_id][r] = NoDecision]
    /\ UNCHANGED <<storeVars, processing_queue, result_queue, batch, sender,
                   review_user, tasks, user_connections, active_connections,
                   socket, inbox, review_results, ops>>

\* The owner connects to a review that exists
Connect(s, p, r) ==
    /\ ReviewExists(r)
    /\ Handshake(s, p, r, Owner)

\* websocket_endpoint: get_review_structure, the 'structure' frame
SendStructure(s) ==
    /\ socket[s].pc = "registered"
    /\ socket' = [socket EXCEPT ![s].pc = "structured"]
    /\ inbox' = [inbox EXCEPT ![s] = Append(@, Frame("structure", {}))]
    /\ UNCHANGED <<storeVars, processing_queue, result_queue, batch, sender, review_user,
                   tasks, user_connections, active_connections, review_results, review_access,
                   ops>>

\* get_cached_results: the rows under the Redis key when it is there, else
\* the rows read from the store
GetCachedResults(r) ==
    IF review_results[r].hit THEN review_results[r].rows ELSE ResultsOf(r)

\* websocket_endpoint: get_cached_results (which leaves what it returns
\* under the Redis key), then the 'cached_results' frame when there are
\* any rows; the receive loop follows.
SendCached(s) ==
    /\ socket[s].pc = "structured"
    /\ socket' = [socket EXCEPT ![s].pc = "live"]
    /\ LET cached_results == GetCachedResults(socket[s].review)
       IN /\ inbox' = IF cached_results # {}
                      THEN [inbox EXCEPT ![s] = Append(@, Frame("cached_results",
                                                                cached_results))]
                      ELSE inbox
          /\ review_results' = [review_results EXCEPT
                                   ![socket[s].review] = Cached(cached_results)]
    /\ UNCHANGED <<storeVars, processing_queue, result_queue, batch, sender,
                   review_user, tasks, user_connections, active_connections,
                   review_access, ops>>

\* setex(cache_key, 60, ...): the key expires
CacheExpires(r) ==
    /\ review_results[r].hit
    /\ review_results' = [review_results EXCEPT ![r] = NoCache]
    /\ UNCHANGED <<storeVars, processing_queue, result_queue, batch, sender,
                   review_user, tasks, user_connections, active_connections,
                   socket, inbox, review_access, ops>>

\* The client closes the websocket; the endpoint has not noticed yet.
ClientClose(s) ==
    /\ Open(s)
    /\ socket' = [socket EXCEPT ![s].pc = "gone"]
    /\ UNCHANGED <<storeVars, processing_queue, result_queue, batch, sender, review_user,
                   tasks, user_connections, active_connections, inbox,
                   review_results, review_access, ops>>

\* The key of the websocket's review deleted whatever websocket it holds.
DisconnectDropsKey(s) ==
    /\ socket[s].pc = "gone"
    /\ socket' = [socket EXCEPT ![s].pc = "closed"]
    /\ LET p == socket[s].process
       IN /\ active_connections' = [active_connections EXCEPT ![p] = @ \ {s}]
          /\ user_connections' =
               [user_connections EXCEPT ![p][socket[s].review] = NoSocket]
    /\ UNCHANGED <<storeVars, processing_queue, result_queue, batch, sender, review_user,
                   tasks, inbox, review_results, review_access, ops>>

\* The websocket discarded from the user's set, its key left in place.
DisconnectKeepsKey(s) ==
    /\ socket[s].pc = "gone"
    /\ socket' = [socket EXCEPT ![s].pc = "closed"]
    /\ active_connections' =
         [active_connections EXCEPT ![socket[s].process] = @ \ {s}]
    /\ UNCHANGED <<storeVars, processing_queue, result_queue, batch, sender, review_user,
                   tasks, user_connections, inbox, review_results, review_access, ops>>

\* websocket_endpoint: its receive or send raises, manager.disconnect
\* discards the websocket and deletes the keys that hold it.
Disconnect(s) ==
    /\ socket[s].pc = "gone"
    /\ socket' = [socket EXCEPT ![s].pc = "closed"]
    /\ LET p == socket[s].process
       IN /\ active_connections' = [active_connections EXCEPT ![p] = @ \ {s}]
          /\ user_connections' =
               [user_connections EXCEPT
                  ![p] = [r \in AllReviews |-> IF @[r] = s THEN NoSocket ELSE @[r]]]
    /\ UNCHANGED <<storeVars, processing_queue, result_queue, batch, sender, review_user,
                   tasks, inbox, review_results, review_access, ops>>

(***************************************************************************)
(* Specifications.                                                         *)
(***************************************************************************)
Requests ==
    \/ \E r \in Reviews, nf \in Files, nc \in ColIds : CreateReview(r, 1..nf, nc)
    \/ \E r \in Reviews, req \in SUBSET Files : AddFiles(r, req)
    \/ \E r \in Reviews : AddColumn(r)
    \/ \E r \in Reviews, c \in ColIds : UpdateColumn(r, c)
    \/ \E r \in Reviews, c \in ColIds : DeleteColumn(r, c)
    \/ \E r \in Reviews, force_reprocess \in BOOLEAN : StartAnalysis(r, force_reprocess)

Handlers ==
    \/ \E t \in tasks : UpdateColumnClear(t)
    \/ \E t \in tasks : StartAnalysisResume(t)

Expansion ==
    \/ \E t \in tasks : CreateReviewAsync(t)
    \/ \E t \in tasks : CreateReviewClear(t)
    \/ \E t \in tasks : AnalyzeNewFiles(t)
    \/ \E t \in tasks : AnalyzeNewColumn(t)
    \/ \E t \in tasks : ProcessReviewAnalysis(t)
    \/ \E t \in tasks : ResumePut(t)

\* The worker pool with each batch settling in one step
Pool(outcomes) ==
    \/ \E w \in Workers : TakeBatch(w)
    \/ \E w \in Workers : ProcessBatch(w, outcomes)
    \/ \E w \in Workers : WorkerSend(w)

\* The worker pool cell by cell, with the executor's threads
PoolCells(outcomes) ==
    \/ \E w \in Workers : TakeBatch(w)
    \/ \E w \in Workers, i \in 1..batch_size : EngineStart(w, i)
    \/ \E w \in Workers, i \in 1..batch_size, o \in outcomes : EngineReturn(w, i, o)
    \/ \E w \in Workers : WorkerSend(w)

CellErrors ==
    \E w \in Workers, i \in 1..batch_size : CellReturnsNone(w, i)

Sender == StoreNext(TRUE) \/ CompletionCheck

\* The endpoint coroutine of websocket s, served by process p
Endpoint(s, p) ==
    \/ \E r \in Reviews : Connect(s, p, r)
    \/ SendStructure(s)
    \/ SendCached(s)

\* The client of websocket s leaves
Leaving(s) == ClientClose(s) \/ Disconnect(s)

\* What a cell can come to: the extraction ("ok"), the "Analysis failed"
\* record ("failed"), None ("none"); and the outcomes each restricted
\* specification admits.
Outcomes == {"ok", "failed", "none"}
Succeeds == {"ok"}
SucceedsOrFails == {"ok", "failed"}
SucceedsOrNone == {"ok", "none"}

Next ==
    \/ Requests
    \/ Handlers
    \/ Expansion
    \/ Pool(Outcomes)
    \/ Sender

Spec == Init /\ [][Next]_vars

(***************************************************************************)
(* Restricted specifications: one review is created and nothing else is    *)
(* requested.  The fairness is that of the asyncio event loop: a coroutine *)
(* that can run is run.                                                    *)
(***************************************************************************)
Creation ==
    \/ \E r \in Reviews, nf \in Files, nc \in ColIds : CreateReview(r, 1..nf, nc)
    \/ \E t \in tasks : CreateReviewAsync(t)
    \/ \E t \in tasks : CreateReviewClear(t)
    \/ \E t \in tasks : ResumePut(t)

Fairness(outcomes) ==
    /\ WF_vars(Creation)
    /\ WF_vars(Pool(outcomes))
    /\ WF_vars(Sender)

\* Every cell finds its document and every Gemini call succeeds; a client
\* may connect to the review and stays connected.
NextScenario ==
    \/ Creation
    \/ Pool(Succeeds)
    \/ Sender
    \/ Endpoint("ws1", Home)

SpecScenario == Init /\ [][NextScenario]_vars /\ Fairness(Succeeds)

\* Every cell finds its document; a Gemini call succeeds or fails.
NextEngineFailure ==
    \/ Creation
    \/ Pool(SucceedsOrFails)
    \/ Sender

SpecEngineFailure == Init /\ [][NextEngineFailure]_vars /\ Fairness(SucceedsOrFails)

\* A cell may return None: no document content, or an exception.
NextCellError ==
    \/ Creation
    \/ Pool(SucceedsOrNone)
    \/ Sender

SpecCellError == Init /\ [][NextCellError]_vars /\ Fairness(SucceedsOrNone)

\* The pool cell by cell, with the executor's threads.
NextPool ==
    \/ Creation
    \/ PoolCells(SucceedsOrFails)
    \/ CellErrors
    \/ Sender

SpecPool == Init /\ [][NextPool]_vars

\* A review of file 1 is created, then file 2 is added to it.
NextAddFiles ==
    \/ \E r \in Reviews, nc \in ColIds : CreateReview(r, {1}, nc)
    \/ \E t \in tasks : CreateReviewAsync(t)
    \/ \E t \in tasks : CreateReviewClear(t)
    \/ \E t \in tasks : ResumePut(t)
    \/ \E r \in Reviews : AddFiles(r, {2})
    \/ \E t \in tasks : AnalyzeNewFiles(t)
    \/ Pool(SucceedsOrNone)
    \/ Sender

SpecAddFiles == Init /\ [][NextAddFiles]_vars


\* A review is created and re-analyzed by hand, with or without
\* force_reprocess; every cell finds its document.
NextReanalyze ==
    \/ Creation
    \/ \E r \in Reviews, force_reprocess \in BOOLEAN : StartAnalysis(r, force_reprocess)
    \/ \E t \in tasks : StartAnalysisResume(t)
    \/ \E t \in tasks : ProcessReviewAnalysis(t)
    \/ Pool(SucceedsOrFails)
    \/ Sender

SpecReanalyze == Init /\ [][NextReanalyze]_vars

\* A review is created and the prompt of one of its columns is edited.
NextPromptEdit ==
    \/ Creation
    \/ \E r \in Reviews, c \in ColIds : UpdateColumn(r, c)
    \/ \E t \in tasks : UpdateColumnClear(t)
    \/ \E t \in tasks : AnalyzeNewColumn(t)
    \/ Pool(Succeeds)
    \/ Sender

SpecPromptEdit == Init /\ [][NextPromptEdit]_vars

\* The worker pool when no more jobs exist than the result queue holds:
\* a worker's send loop never finds the queue full.
PoolUnblocked(outcomes) ==
    \/ \E w \in Workers : TakeBatch(w)
    \/ \E w \in Workers : ProcessBatch(w, outcomes)

\* A review of one file is created
CreationOneFile ==
    \/ \E r \in Reviews, nc \in ColIds : CreateReview(r, {1}, nc)
    \/ \E t \in tasks : CreateReviewAsync(t)
    \/ \E t \in tasks : CreateReviewClear(t)
    \/ \E t \in tasks : ResumePut(t)

\* A review of one file is created while the user's clients come and go on
\* two websockets of the Home process; a Gemini call succeeds or fails.
NextClients ==
    \/ CreationOneFile
    \/ PoolUnblocked(SucceedsOrFails)
    \/ Sender
    \/ \E s \in Sockets : Endpoint(s, Home)
    \/ \E s \in Sockets : Leaving(s)

SpecClients ==
    /\ Init /\ [][NextClients]_vars
    /\ WF_vars(CreationOneFile)
    /\ WF_vars(PoolUnblocked(SucceedsOrFails))
    /\ WF_vars(Sender)

\* Reviews are created, every Gemini call succeeds, and the one client may
\* connect and close its websocket at any moment.
NextDisconnect ==
    \/ Creation
    \/ Pool(Succeeds)
    \/ Sender
    \/ Endpoint("ws1", Home)
    \/ Leaving("ws1")

SpecDisconnect == Init /\ [][NextDisconnect]_vars /\ Fairness(Succeeds)

\* Two clients connect to a review of one file, one after the other or
\* together, while its cells are stored; the cached rows expire after their
\* minute.
NextLateClient ==
    \/ CreationOneFile
    \/ PoolUnblocked(Succeeds)
    \/ Sender
    \/ \E s \in Sockets : Endpoint(s, Home)
    \/ \E r \in Reviews : CacheExpires(r)

SpecLateClient == Init /\ [][NextLateClient]_vars

\* Whoever holds a token, and whoever holds none, tries to connect to the
\* review on either websocket while the review is created and processed.
NextAccess ==
    \/ CreationOneFile
    \/ PoolUnblocked(Succeeds)
    \/ Sender
    \/ \E s \in Sockets, r \in Reviews, user_id \in Users \cup {NoUser} :
          Handshake(s, Home, r, user_id)
    \/ \E s \in Sockets : SendStructure(s)
    \/ \E s \in Sockets : SendCached(s)

SpecAccess == Init /\ [][NextAccess]_vars

\* While the review is created and processed, each user connects with a
\* token of their own to any review the store holds.
NextIsolation ==
    \/ CreationOneFile
    \/ PoolUnblocked(Succeeds)
    \/ Sender
    \/ \E s \in Sockets, r \in AllReviews, user_id \in Users :
          Handshake(s, Home, r, user_id)
    \/ \E s \in Sockets : SendStructure(s)
    \/ \E s \in Sockets : SendCached(s)

SpecIsolation == Init /\ [][NextIsolation]_vars

\* The owner's clients connect while the review is created and deleted;
\* verify_review_access may give way between its store read and its setex,
\* and a cached decision expires after its five minutes.
NextAccessCache ==
    \/ CreationOneFile
    \/ \E r \in Reviews : DeleteReview(r)
    \/ \E t \in tasks : DeleteReviewClear(t)
    \/ \E s \in Sockets, r \in Reviews : Handshake(s, Home, r, Owner)
    \/ \E s \in Sockets, r \in Reviews : VerifyAccess(s, Home, r, Owner)
    \/ \E s \in Sockets : CacheAccess(s)
    \/ \E r \in Reviews : AccessExpires(Owner, r)

SpecAccessCache == Init /\ [][NextAccessCache]_vars

\* A review of one file is created and deleted while its jobs are queued or
\* in flight and the owner's client is connected.
NextDeletion ==
    \/ CreationOneFile
    \/ \E r \in Reviews : DeleteReview(r)
    \/ \E t \in tasks : DeleteReviewClear(t)
    \/ PoolUnblocked(Succeeds)
    \/ Sender
    \/ \E r \in Reviews : UserExpires(r)
    \/ Endpoint("ws1", Home)

SpecDeletion == Init /\ [][NextDeletion]_vars

\* The result sender's send may suspend in send_bytes until the client
\* takes the frame, while the client may close its websocket.
SenderSuspending ==
    \/ StoreNext(TRUE)
    \/ CompletionCheck
    \/ SendBegin
    \/ SendRaises

NextSlowClient ==
    \/ CreationOneFile
    \/ PoolUnblocked(Succeeds)
    \/ SenderSuspending
    \/ SendEnd
    \/ Endpoint("ws1", Home)
    \/ Leaving("ws1")

SpecSlowClient == Init /\ [][NextSlowClient]_vars

\* The result sender's send may suspend while the user's clients come and
\* go on two websockets.
NextSendRace ==
    \/ CreationOneFile
    \/ PoolUnblocked(Succeeds)
    \/ SenderSuspending
    \/ SendEnd
    \/ \E s \in Sockets : Endpoint(s, Home)
    \/ \E s \in Sockets : Leaving(s)

SpecSendRace == Init /\ [][NextSendRace]_vars

\* One client is served by the Home process, which creates the review and
\* runs its jobs, another by a second server process.
NextTwoProcesses ==
    \/ CreationOneFile
    \/ PoolUnblocked(Succeeds)
    \/ Sender
    \/ Endpoint("ws1", Home)
    \/ Endpoint("ws2", "B")

SpecTwoProcesses == Init /\ [][NextTwoProcesses]_vars

\* The persistence call of the result sender may raise.
NextStoreError ==
    \/ CreationOneFile
    \/ PoolUnblocked(Succeeds)
    \/ \E store_up \in BOOLEAN : StoreNext(store_up)
    \/ CompletionCheck
    \/ Endpoint("ws1", Home)

SpecStoreError == Init /\ [][NextStoreError]_vars

(***************************************************************************)
(* Properties.                                                             *)
(***************************************************************************)
RECURSIVE BatchTotal(_)
BatchTotal(W) ==
    IF W = {} THEN 0
    ELSE LET w == CHOOSE x \in W : TRUE
         IN Len(batch[w]) + BatchTotal(W \ {w})

\* Every enqueued job has been taken and processed: nothing is scheduled,
\* queued, in a batch or with the result sender.
Quiescent ==
    /\ tasks = {}
    /\ processing_queue = <<>>
    /\ result_queue = <<>>
    /\ BatchTotal(Workers) = 0
    /\ sender.pc = "idle"

HasResult(r, f, c) == RowsOfKey(<<r, f, c>>) # {}

\* How many frames of a type the client of websocket s has received
Received(s, type) ==
    Cardinality({i \in 1..Len(inbox[s]) : inbox[s][i].type = type})

\* The step in which the result sender's completion check finds equality
\* and writes 'completed' for review r
WritesCompleted(r) ==
    /\ sender.pc = "stored"
    /\ sender.result.review_id = r
    /\ sender'.pc = "idle"
    /\ CompletionReached(r)

\* C1: equality of the stored-result count with total_files x total_columns
\* triggers exactly one transition to 'completed' in a run of jobs: every
\* write of 'completed' (with its review_completed event) is a transition
\* from another status, so a run, which sets 'processing' once when it
\* starts, sees one such write however many upserts it performs.
C1_CompletedWrittenOncePerRun ==
    [][\A r \in Reviews : WritesCompleted(r) => status[r] # "completed"]_vars


\* C2: in every reachable state the stored Results of a review number at
\* most (files linked to the review) x (columns of the review).
C2_ResultsWithinGrid ==
    \A r \in Reviews : total_results(r) <= total_files(r) * total_columns(r)

\* The result of a job whose column was deleted meanwhile has just been
\* handed to the store, and the review's results fill the grid that is left.
C2_Witness ==
    \E r \in Reviews :
        /\ sender.pc = "stored"
        /\ sender.result.review_id = r
        /\ sender.result.column_id \notin columns[r]
        /\ total_expected(r) > 0
        /\ total_results(r) = total_expected(r)

\* C3: a new review of F files and C columns whose cells all succeed, with
\* nothing else touching it, eventually has status 'completed' with exactly
\* F x C stored Results; a connection never receives more than one
\* review_completed, and one that is open while the review is processing
\* receives exactly one.
C3_ScenarioCompletes ==
    /\ \A r \in Reviews :
         (status[r] = "processing")
           ~> (/\ status[r] = "completed"
               /\ total_results(r) = total_files(r) * total_columns(r)
               /\ total_results(r) > 0)
    /\ [](\A s \in Sockets : Received(s, "review_completed") <= 1)
    /\ \A s \in Sockets :
         (Open(s) /\ status[socket[s].review] = "processing")
           ~> (Received(s, "review_completed") = 1)

C3_Witness ==
    \E r \in Reviews, s \in Sockets :
        /\ Quiescent
        /\ status[r] = "completed"
        /\ total_files(r) = MaxFiles
        /\ total_columns(r) = MaxCols
        /\ total_results(r) = MaxFiles * MaxCols
        /\ socket[s].pc = "live"
        /\ Received(s, "review_completed") = 1

\* C4: a failed Gemini call for one cell aborts no sibling cell: every cell
\* of the review, the failed one included, gets its Result stored, and the
\* review reaches 'completed'.
C4_EngineFailureSparesSiblings ==
    \A r \in Reviews :
        (status[r] = "processing")
          ~> (/\ status[r] = "completed"
              /\ \A f \in files[r], c \in columns[r] : HasResult(r, f, c))

\* A completed review that holds a failed cell's Result next to an
\* extracted one of the same file.
C4_Witness ==
    \E r \in Reviews, row1 \in results, row2 \in results :
        /\ status[r] = "completed"
        /\ Quiescent
        /\ row1.review_id = r /\ row2.review_id = r
        /\ row1.file_id = row2.file_id
        /\ row1.extracted_value = NoValue
        /\ row1.confidence_score = 0
        /\ row1.source_reference = "Analysis failed"
        /\ row2.extracted_value = Extracted

\* C5: a job that errors still counts toward completion: once every
\* enqueued job has been taken and processed, whatever its outcome, the
\* review is 'completed'.
C5_ErroredJobStillCompletes ==
    \A r \in Reviews : (Quiescent /\ ReviewExists(r)) => status[r] = "completed"

\* C6, as amended: no more than max_workers Gemini calls are in flight at
\* once, over all workers and reviews.
C6_InFlightWithinExecutor == InFlight <= max_workers

\* C6, as claimed: no more Gemini calls are in flight than there are
\* processing workers.
C6_InFlightWithinWorkers == InFlight <= NumWorkers

C6_Witness == InFlight = max_workers /\ InFlight > NumWorkers

\* C7: every job leads to exactly one Result upsert: a job that leaves a
\* worker's batch is handed to the result sender, none is dropped.
C7_EveryJobReachesSender ==
    [][\A w \in Workers :
          Len(batch'[w]) < Len(batch[w])
            => Len(result_queue') - Len(result_queue)
                 = Len(batch[w]) - Len(batch'[w])]_vars

\* C8: the store never holds two rows of one (review, file, column)
\* identity, and after an upsert the identity's one row holds the value and
\* source of that upsert.
C8_UpsertKeepsOneLatestRow ==
    /\ [](\A row1 \in results, row2 \in results :
             KeyOf(row1) = KeyOf(row2) => row1 = row2)
    /\ [][(/\ sender.pc = "idle"
           /\ sender'.pc = "stored"
           /\ StoreAccepts(ResultRecord(sender'.result)))
            => {row \in results' : KeyOf(row) = KeyOf(sender'.result)}
                 = {ResultRecord(sender'.result)}]_vars

\* An upsert has just replaced a row that held another value.
C8_Witness ==
    /\ sender.pc = "stored"
    /\ sender.prev \notin {"absent", sender.result.value}
    /\ RowsOfKey(KeyOf(sender.result)) = {ResultRecord(sender.result)}

\* C9: after file 2 has been added to a review, once every job has been
\* taken and processed, each column of the review has a Result for file 2.
C9_AddedFileYieldsResults ==
    \A r \in Reviews :
        (Quiescent /\ 2 \in files[r])
          => \A c \in columns[r] : HasResult(r, 2, c)

\* The jobs a background task's step places: those put on the processing
\* queue in the step, then those its put loop still holds.
PlacedJobs ==
    SubSeq(processing_queue', Len(processing_queue) + 1, Len(processing_queue'))
      \o (IF tasks' \ tasks = {} THEN <<>>
          ELSE (CHOOSE u \in tasks' \ tasks : TRUE).pending)

\* C10: the expansion of an added column places exactly one job for each
\* file linked to the review, each for the new column, and neither it nor
\* the handler that inserted the column changes a stored Result.
C10_AddColumnExpansion ==
    /\ [][\A t \in tasks :
            (/\ t.kind = "column"
             /\ t.pc = "scheduled"
             /\ t \notin tasks'
             /\ t.column_id \in columns[t.review])
              => /\ Len(PlacedJobs) = Cardinality(files[t.review])
                 /\ {PlacedJobs[i] : i \in 1..Len(PlacedJobs)}
                      = {Job(t.review, f, t.column_id) : f \in files[t.review]}
                 /\ results' = results]_vars
    /\ [][\A r \in Reviews :
            (ReviewExists(r) /\ columns'[r] # columns[r] /\ columns[r] \subseteq columns'[r])
              => results' = results]_vars

\* Column 2 was added to a review of two files that holds the Results of
\* column 1: its two jobs are queued, the Results are as they were.
C10_Witness ==
    \E r \in Reviews :
        /\ files[r] = {1, 2}
        /\ columns[r] = {1, 2}
        /\ processing_queue = <<Job(r, 1, 2), Job(r, 2, 2)>>
        /\ HasResult(r, 1, 1) /\ HasResult(r, 2, 1)
        /\ ~HasResult(r, 1, 2) /\ ~HasResult(r, 2, 2)

\* C11: after a prompt edit the review is 'completed' only once the
\* re-analysis jobs of the edited column have stored their Results: while
\* the re-analysis of a column is still to be expanded the review is not
\* 'completed'.
C11_CompletedOnlyAfterReanalysis ==
    \A r \in Reviews :
        status[r] = "completed"
          => ~\E t \in tasks : t.review = r /\ t.kind = "column"

\* The sender's step after the store: cell_update, completion check.
SenderSends == sender.pc = "stored" /\ sender'.pc = "idle"

C13_LateClientCatchesUp ==
    \A s \in Sockets :
        (/\ socket[s].pc = "live"
         /\ \A s2 \in Sockets \ {s} : socket[s2].pc = "new"
         /\ Quiescent
         /\ status[socket[s].review] = "completed")
          => Received(s, "review_completed") >= 1

\* C14: each event the result sender sends for a review reaches every
\* open websocket the user has connected to the Home process.
C14_EveryConnectionReceives ==
    [][\A s \in Sockets :
          (SenderSends /\ Open(s) /\ socket[s].process = Home)
            => Len(inbox'[s]) > Len(inbox[s])]_vars

\* C15: an event the result sender of the Home process sends reaches an
\* open websocket registered in another server process.
C15_EventCrossesProcesses ==
    [][\A s \in Sockets :
          (SenderSends /\ Open(s) /\ socket[s].process # Home)
            => inbox'[s] # inbox[s]]_vars

\* C16: a cell whose extraction has finished is not held back by a cell
\* of its batch that is still being extracted: the worker can send its
\* result on as soon as the result queue has room.
C16_FinishedCellNotHeld ==
    \A w \in Workers :
        (/\ \E i \in 1..Len(batch[w]) : batch[w][i].st \in SucceedsOrFails
         /\ Len(result_queue) < result_maxsize)
          => ENABLED WorkerSend(w)

\* The frame websocket s receives in the step, when it receives one
NewFrame(s) == inbox'[s][Len(inbox[s]) + 1]

FailedResult(job) ==
    [review_id |-> job.review_id, file_id |-> job.file_id,
     column_id |-> job.column_id, value |-> NoValue, confidence |-> 0,
     source |-> "Analysis failed"]

\* C18: a cell whose Gemini call failed leaves its worker as a result with
\* value None, confidence 0.0 and source "Analysis failed", handed to the
\* result sender; the job is not put back on the processing queue; every
\* stored row marked "Analysis failed" has no value and confidence 0.
C18_FailureStoredAsDegradedResult ==
    /\ [][\A w \in Workers :
            Len(batch'[w]) < Len(batch[w])
              => \A i \in 1..(Len(batch[w]) - Len(batch'[w])) :
                   batch[w][i].st = "failed"
                     => /\ \E j \in 1..Len(result_queue') :
                             result_queue'[j] = FailedResult(batch[w][i].job)
                        /\ processing_queue' = processing_queue]_vars
    /\ [](\A row \in results :
             row.source_reference = "Analysis failed"
               => row.extracted_value = NoValue /\ row.confidence_score = 0)
    /\ [][\A w \in Workers, i \in 1..batch_size :
            (i <= Len(batch[w]) /\ batch[w][i].st = "failed")
              => \/ Len(batch'[w]) < Len(batch[w])
                 \/ batch'[w][i] = batch[w][i]]_vars

\* The sender has just stored the degraded Result of a failed cell.
C18_Witness ==
    /\ sender.pc = "stored"
    /\ sender.result = FailedResult(Job(sender.result.review_id,
                                          sender.result.file_id,
                                          sender.result.column_id))
    /\ ResultRecord(sender.result) \in results

\* A frame that carries the result of one cell
CellEvent(frame) == frame.type \notin {"structure", "cached_results"} /\ frame.data # {}

\* C19: the event sent for a cell whose Gemini call failed has another
\* type than the event sent for a cell whose call succeeded.
C19_FailedCellHasOwnEventType ==
    \A s \in Sockets : \A i \in 1..Len(inbox[s]), j \in 1..Len(inbox[s]) :
        (/\ CellEvent(inbox[s][i])
         /\ CellEvent(inbox[s][j])
         /\ \E x \in inbox[s][i].data : x.source = "Analysis failed"
         /\ \E y \in inbox[s][j].data : y.source # "Analysis failed")
          => inbox[s][i].type # inbox[s][j].type

\* C20: when the upsert of a result failed, the sender's next step sends
\* no frame to any client.
C20_FailedStoreSendsNoEvent ==
    [][(SenderSends /\ ~sender.stored) => inbox' = inbox]_vars

\* C21: a send that fails, or whose registration is removed while it is
\* pending, never keeps the result sender from the completion check of the
\* result it stored: when the sender ends its iteration on a review whose
\* results are all stored, the review is written 'completed'.
C21_SendErrorKeepsCompletionCheck ==
    [][(sender.pc \in {"stored", "sending"} /\ sender'.pc = "idle"
          /\ CompletionReached(sender.result.review_id))
         => status'[sender.result.review_id] = "completed"]_vars

\* C22: a client that does not take its frames delays nothing: while a
\* result waits in the result queue the sender has a step of its own to
\* take, one that does not wait for any client.
C22_SlowClientDelaysNothing ==
    result_queue # <<>> => ENABLED SenderSuspending

C24_JobsCarryStoredPrompt ==
    [][\A i \in 1..Len(processing_queue') :
          i > Len(processing_queue)
            => LET job == processing_queue'[i]
               IN /\ job.prompt = prompt[job.review_id][job.column_id]
                  /\ job.file_id \in files[job.review_id]]_vars

\* C25: every event frame a client receives, the frames of the connection's
\* start apart, carries the id of its review.
C25_EventsCarryReviewId ==
    \A s \in Sockets : \A i \in 1..Len(inbox[s]) :
        inbox[s][i].type \notin Lifecycle => CarriesReviewId(inbox[s][i])

\* Frames sent by manager.send_to_review, none by the endpoint itself
LiveFrame(frame) == frame.type \notin Lifecycle

\* C26: the first frame a connection delivers is 'structure', and no live
\* event frame is delivered before the endpoint has sent the structure and
\* the cached_results frames.
C26_StructureFirst ==
    \A s \in Sockets :
        /\ inbox[s] # <<>> => inbox[s][1].type = "structure"
        /\ socket[s].pc \in {"registered", "structured"}
             => \A i \in 1..Len(inbox[s]) : ~LiveFrame(inbox[s][i])

\* C27: the cached_results frame a connection is sent holds every result
\* that was stored for its review before the connection was registered.
C27_CachedResultsComplete ==
    [][\A s \in Sockets :
          (socket[s].pc = "structured" /\ socket'[s].pc = "live"
             /\ socket[s].before # {})
            => /\ Len(inbox'[s]) = Len(inbox[s]) + 1
               /\ inbox'[s][Len(inbox'[s])].type = "cached_results"
               /\ socket[s].before \subseteq inbox'[s][Len(inbox'[s])].data]_vars

\* The websocket's request came with no valid token or from a user who
\* does not own the review.
Unauthorized(s) == socket[s].pc # "new" /\ socket[s].user # Owner

\* C28: a connection with an invalid token or of a user who does not own
\* the review is closed without being accepted: it is never registered in
\* the manager and never receives a frame.
C28_UnauthorizedRejected ==
    \A s \in Sockets :
        Unauthorized(s)
          => /\ socket[s].pc = "refused"
             /\ inbox[s] = <<>>
             /\ \A p \in Processes :
                   /\ s \notin active_connections[p]
                   /\ \A r \in Reviews : user_connections[p][r] # s

\* A stranger, or a request without a valid token, was refused on one
\* websocket while the owner receives the review's events on the other.
C28_Witness ==
    \E s \in Sockets, o \in Sockets :
        /\ socket[s].pc = "refused" /\ socket[s].user \in {"u2", NoUser}
        /\ ReviewExists(socket[s].review)
        /\ socket[o].user = Owner /\ socket[o].pc = "live"
        /\ Received(o, "cell_update") >= 1

\* C29: once the endpoint's loop has ended, by the client's disconnect or
\* by an error, its websocket is in neither active_connections nor
\* user_connections, and no frame is sent to it any more.
C29_DeregisteredAfterLoop ==
    /\ [](\A s \in Sockets :
            socket[s].pc = "closed"
              => \A p \in Processes :
                    /\ s \notin active_connections[p]
                    /\ \A r \in Reviews : user_connections[p][r] # s)
    /\ [][\A s \in Sockets :
            socket[s].pc = "closed" => inbox'[s] = inbox[s]]_vars

\* A websocket that held the key was closed before the first cell, and the
\* review then completed under the eyes of the user's other websocket.
C29_Witness ==
    \E s \in Sockets : \E o \in Sockets \ {s} :
        /\ socket[s].pc = "closed"
        /\ inbox[s] # <<>>
        /\ Received(s, "cell_update") = 0
        /\ socket[o].pc = "live"
        /\ Received(o, "cell_update") >= 1
        /\ Received(o, "review_completed") = 1

\* An expansion is in its put loop with jobs still to place
Putting(t) == t.pc = "putting" /\ t.pending # <<>>

\* The put loop of t took a step: the jobs it placed are the first of its
\* pending jobs, in order, at the end of the queue, and the others are
\* still pending.
PutsInOrder(t) ==
    \E n \in 0..Len(t.pending) :
        /\ processing_queue' = processing_queue \o SubSeq(t.pending, 1, n)
        /\ IF n = Len(t.pending)
           THEN \A u \in tasks' : u.id # t.id
           ELSE \E u \in tasks' :
                    /\ u.id = t.id
                    /\ u.pending = SubSeq(t.pending, n + 1, Len(t.pending))

C31_UpsertsCommute ==
    \A i \in 1..Len(result_queue) : \A j \in 1..Len(result_queue) :
        LET u1 == ResultRecord(result_queue[i])
            u2 == ResultRecord(result_queue[j])
        IN KeyOf(u1) = KeyOf(u2) =>
             StoreResult(StoreResult(results, u1), u2)
               = StoreResult(StoreResult(results, u2), u1)

C33_CompletedMeansFull ==
    \A r \in Reviews :
        status[r] = "completed"
          => \A f \in files[r] : \A c \in columns[r] : HasResult(r, f, c)

\* C34: manager.disconnect of a websocket that another websocket has
\* replaced under the key leaves the key holding that other websocket and
\* leaves it in the user's set of active connections.
C34_DisconnectSparesSuccessor ==
    [][\A a \in Sockets : \A b \in Sockets \ {a} :
         (/\ socket[a].pc = "gone"
          /\ socket'[a].pc = "closed"
          /\ user_connections[socket[a].process][socket[a].review] = b
          /\ b \in active_connections[socket[a].process])
           => /\ user_connections'[socket[a].process][socket[a].review] = b
              /\ b \in active_connections'[socket[a].process]]_vars

\* Websocket a was registered and served, b took its key, and a's endpoint
\* has run manager.disconnect: b is under the key and in the active set, a
\* is in neither.
C34_Witness ==
    \E a \in Sockets : \E b \in Sockets \ {a} :
        /\ socket[a].pc = "closed"
        /\ inbox[a] # <<>>
        /\ Open(b)
        /\ user_connections[Home][socket[a].review] = b
        /\ active_connections[Home] = {b}

\* C35: when a send of send_to_review fails, only the registration of the
\* websocket whose send failed is removed: a websocket that registered
\* under the key while the send was pending is registered afterwards.
C35_FailedSendSparesSuccessor ==
    [][(sender.pc = "sending" /\ sender'.pc = "idle" /\ ~Open(sender.to))
         => \A r \in Reviews :
               user_connections[Home][r] # sender.to
                 => user_connections'[Home][r] = user_connections[Home][r]]_vars

\* C36: the events of a review are delivered only to a connection that is
\* registered under (owner of the review, that review): a websocket of
\* another user, or one registered for another review, never receives a
\* cell_update or review_completed of the review.
C36_EventsOnlyToOwnersKey ==
    \A s \in Sockets : \A i \in 1..Len(inbox[s]) :
        /\ inbox[s][i].type = "cell_update"
             => \A res \in inbox[s][i].data :
                    /\ socket[s].review = res.review_id
                    /\ socket[s].user = OwnerOf(res.review_id)
        /\ inbox[s][i].type = "review_completed"
             => /\ socket[s].review \in Reviews
                /\ socket[s].user = OwnerOf(socket[s].review)

\* The owner's websocket of the review has received its cell update and
\* its completion, while a websocket registered for another review in the
\* same process, the user's own or the other user's, has received neither.
C36_Witness ==
    \E s \in Sockets : \E o \in Sockets \ {s} :
        /\ socket[s].review \in Reviews
        /\ Received(s, "cell_update") >= 1
        /\ Received(s, "review_completed") = 1
        /\ socket[o].review \in OtherReviews
        /\ socket[o].pc = "live"
        /\ o \in active_connections[Home]
        /\ user_connections[Home][socket[o].review] = o
        /\ Received(o, "cell_update") = 0
        /\ Received(o, "review_completed") = 0

\* delete_tabular_review has returned for review r
DeleteReturned(r) ==
    /\ status[r] = "deleted"
    /\ \A t \in tasks : ~(t.kind = "delete" /\ t.review = r)

\* C37: the cached access decision agrees with the store once a structural
\* change has finished: a connect of the owner that starts after
\* delete_tabular_review has returned is rejected, and one that starts
\* after create_review_async has inserted the review is accepted.
C37_AccessAgreesWithStore ==
    [][\A s \in Sockets :
         (socket[s].pc = "new" /\ socket'[s].pc # "new" /\ socket'[s].user = Owner)
           => /\ DeleteReturned(socket'[s].review)
                   => socket'[s].pc \in {"refused", "denied"}
              /\ ReviewExists(socket'[s].review)
                   => socket'[s].pc \in {"registered", "granted"}]_vars

\* C38: after a review has been deleted, its jobs that were queued or in
\* flight leave no trace: no Result row of the review is stored, its status
\* is not written, and no cell_update or review_completed is sent for it.
C38_DeletedReviewLeavesNoTrace ==
    /\ [](\A r \in Reviews : status[r] = "deleted" => ResultsOf(r) = {})
    /\ [][\A r \in Reviews : status[r] = "deleted" => status'[r] = "deleted"]_vars
    /\ [][\A r \in Reviews :
            (status[r] = "deleted" /\ SenderSends /\ sender.result.review_id = r)
              => inbox' = inbox]_vars

====
